---- MODULE Spec2Model ----
(***************************************************************************)
(* The micro-task marketplace server of src/index.js (the iteration at     *)
(* lines 141-766: users, tasks, submissions, withdrawals, payments).       *)
(*                                                                         *)
(* Every route handler is an async function: it runs to its first await,   *)
(* and each awaited MongoDB command (findOne, insertOne, updateOne,        *)
(* deleteOne) is applied atomically by the database, one document at a     *)
(* time.  Handlers of different requests interleave at their awaits.  An   *)
(* action of this module is one such segment: the receipt of a request     *)
(* with its validation and first database command, or a later database     *)
(* command of a request in flight with the code that follows it up to the  *)
(* next await or the response.                                             *)
(***************************************************************************)
EXTENDS Integers, Sequences, FiniteSets, TLC

\* ---------------------------------------------------------------- bounds

\* Requests received in one behaviour.
MaxReq == 3
\* Task ids the database hands out (task 1 is stored initially).
MaxTasks == 2
\* required_workers and payable_amount of the task stored initially.
InitSlots == 1
InitPay == 2

\* ------------------------------------------------------- program constants

\* Starting balance by role (coins = role === "Worker" ? 10 : role === "Buyer" ? 50 : 0).
WorkerGrant == 10
BuyerGrant == 50

\* ------------------------------------------------------------ input sets

Roles == {"Worker", "Buyer", "Admin"}
TaskIds == 1..MaxTasks
\* payable_amount / payableAmount values a client sends.
PayAmounts == {2, 3}
\* withdrawal_coin values a client sends (0 is falsy, a negative number is not).
WithdrawCoins == {-5, 0, 10}
\* coins of a purchase (POST /payments) and of PATCH /users/:email/coins.
MintCoins == {0, 10}
SetCoins == {-1, 7}
\* transactionId values.
TxnIds == {1}
\* required_workers of a POST /tasks body (0 is falsy).
NewSlots == {0, 2}

VARIABLES
  users,        \* usersCollection: documents in insertion order
  tasks,        \* tasksCollection: task id -> document
  submissions,  \* submissionsCollection: documents in insertion order (index = _id)
  withdrawals,  \* withdrawalsCollection: documents in insertion order (index = _id)
  payments,     \* paymentsCollection: documents in insertion order
  reqs,         \* the requests received so far, in order of receipt, each with
                \* its handler's position, locals and response
  original      \* task id -> required_workers the task was stored with (history)

vars == <<users, tasks, submissions, withdrawals, payments, reqs, original>>

\* --------------------------------------------------------------- documents

\* A slot of tasksCollection: never used, holding a document, or deleted.
NoTask ==
  [doc |-> "absent", status |-> "", required_workers |-> 0,
   payable_amount |-> 0, buyer_email |-> ""]

TaskDoc(buyer, slots, pay, status) ==
  [doc |-> "present", status |-> status, required_workers |-> slots,
   payable_amount |-> pay, buyer_email |-> buyer]

\* tasksCollection.findOne({_id}): the document, or null (NoTask).
FindTask(ts, id) ==
  IF id \in DOMAIN ts /\ ts[id].doc = "present" THEN ts[id] ELSE NoTask

\* tasksCollection.updateOne({_id}, {$inc: {required_workers: d}}): no match, no change.
IncRequiredWorkers(ts, id, d) ==
  IF id \in DOMAIN ts /\ ts[id].doc = "present"
  THEN [ts EXCEPT ![id].required_workers = @ + d]
  ELSE ts

\* tasksCollection.deleteOne({_id}).
DeleteTask(ts, id) ==
  IF id \in DOMAIN ts /\ ts[id].doc = "present"
  THEN [ts EXCEPT ![id] = [NoTask EXCEPT !.doc = "deleted"]]
  ELSE ts

\* The first document of usersCollection with this email (0: none).
UserIndex(us, email) ==
  IF \E i \in 1..Len(us) : us[i].email = email
  THEN CHOOSE i \in 1..Len(us) :
         /\ us[i].email = email
         /\ \A j \in 1..(i - 1) : us[j].email # email
  ELSE 0

\* usersCollection.updateOne({email}, {$inc: {coins: d}}): the first match only.
IncCoins(us, email, d) ==
  LET i == UserIndex(us, email)
  IN  IF i = 0 THEN us ELSE [us EXCEPT ![i].coins = @ + d]

\* usersCollection.updateOne({email}, {$set: {coins}}).
SetCoinsOf(us, email, c) ==
  LET i == UserIndex(us, email)
  IN  IF i = 0 THEN us ELSE [us EXCEPT ![i].coins = c]

\* submissionsCollection.updateOne({_id}, {$set: {status}}).
SetSubmissionStatus(ss, id, st) ==
  IF id \in 1..Len(ss) THEN [ss EXCEPT ![id].status = st] ELSE ss

\* withdrawalsCollection.updateOne({_id}, {$set: {status}}).
SetWithdrawalStatus(ws, id, st) ==
  IF id \in 1..Len(ws) THEN [ws EXCEPT ![id].status = st] ELSE ws

\* ---------------------------------------------------------------- requests

\* A request: its route (op), the position of its handler (pc), the fields of
\* its params and body, the handler's locals and the response status (0: none yet).
Req(op, pc, status, email, id, taskId, amount) ==
  [op |-> op, pc |-> pc, status |-> status, email |-> email, id |-> id,
   taskId |-> taskId, amount |-> amount, role |-> "", task |-> NoTask]

InFlight(r) == r.pc # "done"
Quiet == \A i \in 1..Len(reqs) : ~InFlight(reqs[i])
\* The requests of a behaviour are at most MaxReq.
CanReceive == Len(reqs) < MaxReq

\* The ids a client names: those of the documents stored so far and one id no
\* document has (it stands for every unknown id).
SubmissionIds == 1..(Len(submissions) + 1)
WithdrawalIds == 1..(Len(withdrawals) + 1)
KnownTaskIds ==
  {t \in TaskIds : tasks[t].doc # "absent" \/ \A u \in 1..(t - 1) : tasks[u].doc # "absent"}

\* ------------------------------------------------------------------- Init

\* The database when the requests of a behaviour start to arrive: a buyer and a
\* worker as POST /users stores them, and one task of the buyer's as POST /tasks
\* stores it.  No route of the server writes a task's status after that; the
\* delete routes branch on it (task.status === "active"), so the stored task is
\* taken either active or closed ("completed") by another writer of the database.
Init ==
  /\ users = << [email |-> "buyer", role |-> "Buyer", coins |-> BuyerGrant],
                [email |-> "worker", role |-> "Worker", coins |-> WorkerGrant] >>
  /\ \E st \in {"active", "completed"} :
       tasks = [t \in TaskIds |->
                  IF t = 1 THEN TaskDoc("buyer", InitSlots, InitPay, st) ELSE NoTask]
  /\ submissions = << >>
  /\ withdrawals = << >>
  /\ payments = << >>
  /\ reqs = << >>
  /\ original = [t \in TaskIds |-> IF t = 1 THEN InitSlots ELSE 0]

\* ------------------------------------------------ POST /submissions (362-377)

\* insertOne(submission) with status forced to "pending" (task_id and
\* worker_email are present in every body drawn here, so the 400 is not taken).
ClaimInsert(task_id, worker_email, payable_amount) ==
  /\ submissions' = Append(submissions,
       [task_id |-> task_id, worker_email |-> worker_email,
        payable_amount |-> payable_amount, status |-> "pending"])
  /\ reqs' = Append(reqs, Req("claim", "dec", 0, worker_email, Len(submissions) + 1,
                              task_id, payable_amount))
  /\ UNCHANGED <<users, tasks, withdrawals, payments, original>>

\* updateOne(task, {$inc: {required_workers: -1}}), then 201.
ClaimDec(i) ==
  /\ reqs[i].op = "claim" /\ reqs[i].pc = "dec"
  /\ tasks' = IncRequiredWorkers(tasks, reqs[i].taskId, -1)
  /\ reqs' = [reqs EXCEPT ![i].pc = "done", ![i].status = 201]
  /\ UNCHANGED <<users, submissions, withdrawals, payments, original>>

\* ------------------------------------- PATCH /submissions/approve/:id (480-494)

\* updateOne(user workerEmail, {$inc: {coins: payableAmount}}): both from the body.
ApproveCredit(id, workerEmail, payableAmount) ==
  /\ users' = IncCoins(users, workerEmail, payableAmount)
  /\ reqs' = Append(reqs, Req("approve", "set", 0, workerEmail, id, 0, payableAmount))
  /\ UNCHANGED <<tasks, submissions, withdrawals, payments, original>>

\* An approval that hands the submission's slot back to its task.
ApproveSetReturningSlot(i) ==
  /\ reqs[i].op = "approve" /\ reqs[i].pc = "set"
  /\ submissions' = SetSubmissionStatus(submissions, reqs[i].id, "approved")
  /\ tasks' = IF reqs[i].id \in 1..Len(submissions)
              THEN IncRequiredWorkers(tasks, submissions[reqs[i].id].task_id, 1)
              ELSE tasks
  /\ reqs' = [reqs EXCEPT ![i].pc = "done", ![i].status = 200]
  /\ UNCHANGED <<users, withdrawals, payments, original>>

\* updateOne(submission, {$set: {status: "approved"}}), then 200.
ApproveSet(i) ==
  /\ reqs[i].op = "approve" /\ reqs[i].pc = "set"
  /\ submissions' = SetSubmissionStatus(submissions, reqs[i].id, "approved")
  /\ reqs' = [reqs EXCEPT ![i].pc = "done", ![i].status = 200]
  /\ UNCHANGED <<users, tasks, withdrawals, payments, original>>

\* -------------------------------------- PATCH /submissions/reject/:id (496-511)

\* A reject that leaves the slot count alone.
RejectIncSkipped(id, taskId) ==
  /\ reqs' = Append(reqs, Req("reject", "set", 0, "", id, taskId, 0))
  /\ UNCHANGED <<users, tasks, submissions, withdrawals, payments, original>>

\* updateOne(task taskId, {$inc: {required_workers: 1}}): taskId from the body.
RejectInc(id, taskId) ==
  /\ tasks' = IncRequiredWorkers(tasks, taskId, 1)
  /\ reqs' = Append(reqs, Req("reject", "set", 0, "", id, taskId, 0))
  /\ UNCHANGED <<users, submissions, withdrawals, payments, original>>

\* updateOne(submission, {$set: {status: "rejected"}}), then 200.
RejectSet(i) ==
  /\ reqs[i].op = "reject" /\ reqs[i].pc = "set"
  /\ submissions' = SetSubmissionStatus(submissions, reqs[i].id, "rejected")
  /\ reqs' = [reqs EXCEPT ![i].pc = "done", ![i].status = 200]
  /\ UNCHANGED <<users, tasks, withdrawals, payments, original>>

\* ------------------- DELETE /tasks/:id (343-359), DELETE /admin/tasks/:id (730-753)

\* A refund that forgets the slot count.
RefundOfPayable(task) == task.payable_amount

\* refund = task.required_workers * task.payable_amount, of the document read.
Refund(task) == task.required_workers * task.payable_amount

\* findOne(task): 404 when there is none; else the refund or the removal is next.
FindForDelete(op, id) ==
  LET task == FindTask(tasks, id)
  IN  /\ reqs' = Append(reqs,
           IF task.doc # "present"
           THEN Req(op, "done", 404, "", id, id, 0)
           ELSE [Req(op, IF task.status = "active" THEN "refund" ELSE "remove",
                     0, task.buyer_email, id, id, 0) EXCEPT !.task = task])
      /\ UNCHANGED <<users, tasks, submissions, withdrawals, payments, original>>

\* updateOne(user task.buyer_email, {$inc: {coins: refund}}).
RefundBuyer(op, i) ==
  /\ reqs[i].op = op /\ reqs[i].pc = "refund"
  /\ users' = IncCoins(users, reqs[i].task.buyer_email, Refund(reqs[i].task))
  /\ reqs' = [reqs EXCEPT ![i].pc = "remove", ![i].amount = Refund(reqs[i].task)]
  /\ UNCHANGED <<tasks, submissions, withdrawals, payments, original>>

\* deleteOne(task), then 200.
RemoveTask(op, i) ==
  /\ reqs[i].op = op /\ reqs[i].pc = "remove"
  /\ tasks' = DeleteTask(tasks, reqs[i].id)
  /\ reqs' = [reqs EXCEPT ![i].pc = "done", ![i].status = 200]
  /\ UNCHANGED <<users, submissions, withdrawals, payments, original>>

DeleteFind(id) == FindForDelete("delete", id)
DeleteRefund(i) == RefundBuyer("delete", i)
DeleteRemove(i) == RemoveTask("delete", i)

AdminDeleteFind(id) == FindForDelete("adminDelete", id)
\* An admin delete that goes on to the removal without the refund.
AdminDeleteRefundSkipped(i) ==
  /\ reqs[i].op = "adminDelete" /\ reqs[i].pc = "refund"
  /\ reqs' = [reqs EXCEPT ![i].pc = "remove"]
  /\ UNCHANGED <<users, tasks, submissions, withdrawals, payments, original>>
AdminDeleteRefund(i) == RefundBuyer("adminDelete", i)
AdminDeleteRemove(i) == RemoveTask("adminDelete", i)

\* ------------------------------------------------- POST /withdrawals (537-561)

\* 400 when withdrawal_coin is falsy; else insertOne({...withdrawal, status: "pending"}).
WithdrawInsert(worker_email, withdrawal_coin) ==
  /\ IF withdrawal_coin = 0
     THEN /\ reqs' = Append(reqs, Req("withdraw", "done", 400, worker_email, 0, 0,
                                      withdrawal_coin))
          /\ UNCHANGED withdrawals
     ELSE /\ withdrawals' = Append(withdrawals,
               [worker_email |-> worker_email, withdrawal_coin |-> withdrawal_coin,
                status |-> "pending"])
          /\ reqs' = Append(reqs, Req("withdraw", "debit", 0, worker_email,
                                      Len(withdrawals) + 1, 0, withdrawal_coin))
  /\ UNCHANGED <<users, tasks, submissions, payments, original>>

\* updateOne(user, {$inc: {coins: -Number(withdrawal_coin)}}), then 201.
WithdrawDebit(i) ==
  /\ reqs[i].op = "withdraw" /\ reqs[i].pc = "debit"
  /\ users' = IncCoins(users, reqs[i].email, -reqs[i].amount)
  /\ reqs' = [reqs EXCEPT ![i].pc = "done", ![i].status = 201]
  /\ UNCHANGED <<tasks, submissions, withdrawals, payments, original>>

\* ------------------------------------ PATCH /withdrawals/approve/:id (646-668)

\* An approval that never looks at the stored status.
WithdrawApproveFindUnchecked(id) ==
  /\ reqs' = Append(reqs,
       IF id \notin 1..Len(withdrawals)
       THEN Req("withdrawApprove", "done", 404, "", id, 0, 0)
       ELSE Req("withdrawApprove", "set", 0, "", id, 0, 0))
  /\ UNCHANGED <<users, tasks, submissions, withdrawals, payments, original>>

\* findOne(withdrawal): 404 when there is none, 400 when it is approved.
WithdrawApproveFind(id) ==
  /\ reqs' = Append(reqs,
       IF id \notin 1..Len(withdrawals)
       THEN Req("withdrawApprove", "done", 404, "", id, 0, 0)
       ELSE IF withdrawals[id].status = "approved"
       THEN Req("withdrawApprove", "done", 400, "", id, 0, 0)
       ELSE Req("withdrawApprove", "set", 0, "", id, 0, 0))
  /\ UNCHANGED <<users, tasks, submissions, withdrawals, payments, original>>

\* An approval that takes the coins a second time.
WithdrawApproveSetDebiting(i) ==
  /\ reqs[i].op = "withdrawApprove" /\ reqs[i].pc = "set"
  /\ withdrawals' = SetWithdrawalStatus(withdrawals, reqs[i].id, "approved")
  /\ users' = IF reqs[i].id \in 1..Len(withdrawals)
              THEN IncCoins(users, withdrawals[reqs[i].id].worker_email,
                            -withdrawals[reqs[i].id].withdrawal_coin)
              ELSE users
  /\ reqs' = [reqs EXCEPT ![i].pc = "done", ![i].status = 200]
  /\ UNCHANGED <<tasks, submissions, payments, original>>

\* updateOne(withdrawal, {$set: {status: "approved"}}), then 200.
WithdrawApproveSet(i) ==
  /\ reqs[i].op = "withdrawApprove" /\ reqs[i].pc = "set"
  /\ withdrawals' = SetWithdrawalStatus(withdrawals, reqs[i].id, "approved")
  /\ reqs' = [reqs EXCEPT ![i].pc = "done", ![i].status = 200]
  /\ UNCHANGED <<users, tasks, submissions, payments, original>>

\* ---------------------------------------------------- POST /payments (579-590)

\* 400 when coins is falsy; else insertOne({...req.body, paidAt}).
MintInsert(email, coins, transactionId) ==
  /\ IF coins = 0
     THEN /\ reqs' = Append(reqs, Req("mint", "done", 400, email, transactionId, 0, coins))
          /\ UNCHANGED payments
     ELSE /\ payments' = Append(payments,
               [email |-> email, coins |-> coins, transactionId |-> transactionId])
          /\ reqs' = Append(reqs, Req("mint", "credit", 0, email, transactionId, 0, coins))
  /\ UNCHANGED <<users, tasks, submissions, withdrawals, original>>

\* updateOne(user, {$inc: {coins}}), then 201.
MintCredit(i) ==
  /\ reqs[i].op = "mint" /\ reqs[i].pc = "credit"
  /\ users' = IncCoins(users, reqs[i].email, reqs[i].amount)
  /\ reqs' = [reqs EXCEPT ![i].pc = "done", ![i].status = 201]
  /\ UNCHANGED <<tasks, submissions, withdrawals, payments, original>>

\* ------------------------------------------ PATCH /users/:email/coins (243-252)

\* updateOne(user, {$set: {coins}}), then 200 (coins is a number here).
PatchCoins(email, coins) ==
  /\ users' = SetCoinsOf(users, email, coins)
  /\ reqs' = Append(reqs, Req("patchCoins", "done", 200, email, 0, 0, coins))
  /\ UNCHANGED <<tasks, submissions, withdrawals, payments, original>>

\* -------------------------------------------------------- POST /users (216-233)

\* A grant that does not look at the role.
StartingCoinsOfWorker(role) == WorkerGrant

\* coins = role === "Worker" ? 10 : role === "Buyer" ? 50 : 0
StartingCoins(role) ==
  IF role = "Worker" THEN WorkerGrant ELSE IF role = "Buyer" THEN BuyerGrant ELSE 0

\* findOne({email}): 409 when a user has it.
RegisterFind(email, role) ==
  /\ reqs' = Append(reqs,
       IF UserIndex(users, email) # 0
       THEN Req("register", "done", 409, email, 0, 0, 0)
       ELSE [Req("register", "insert", 0, email, 0, 0, StartingCoins(role))
               EXCEPT !.role = role])
  /\ UNCHANGED <<users, tasks, submissions, withdrawals, payments, original>>

\* insertOne({name, email, photoURL, role, coins, createdAt}), then 201.
RegisterInsert(i) ==
  /\ reqs[i].op = "register" /\ reqs[i].pc = "insert"
  /\ users' = Append(users,
       [email |-> reqs[i].email, role |-> reqs[i].role, coins |-> reqs[i].amount])
  /\ reqs' = [reqs EXCEPT ![i].pc = "done", ![i].status = 201]
  /\ UNCHANGED <<tasks, submissions, withdrawals, payments, original>>

\* -------------------------------------------------------- POST /tasks (272-301)

\* The id the database gives the next task (0: the model's ids are used up).
FreeTaskId ==
  IF \E t \in TaskIds : tasks[t].doc = "absent"
  THEN CHOOSE t \in TaskIds :
         tasks[t].doc = "absent" /\ \A u \in 1..(t - 1) : tasks[u].doc # "absent"
  ELSE 0

\* 400 when a required field is falsy; findOne(buyer): 404 when there is none.
CreateTaskFind(buyer_email, required_workers, payable_amount) ==
  /\ reqs' = Append(reqs,
       IF required_workers = 0
       THEN Req("createTask", "done", 400, buyer_email, 0, 0, payable_amount)
       ELSE IF UserIndex(users, buyer_email) = 0
       THEN Req("createTask", "done", 404, buyer_email, 0, 0, payable_amount)
       ELSE [Req("createTask", "insert", 0, buyer_email, 0, 0, payable_amount)
               EXCEPT !.task = TaskDoc(buyer_email, required_workers, payable_amount,
                                       "active")])
  /\ UNCHANGED <<users, tasks, submissions, withdrawals, payments, original>>

\* A creation that takes the task's cost from the buyer.
CreateTaskInsertDebiting(i) ==
  /\ reqs[i].op = "createTask" /\ reqs[i].pc = "insert"
  /\ FreeTaskId # 0
  /\ tasks' = [tasks EXCEPT ![FreeTaskId] = reqs[i].task]
  /\ original' = [original EXCEPT ![FreeTaskId] = reqs[i].task.required_workers]
  /\ users' = IncCoins(users, reqs[i].task.buyer_email,
                       -(reqs[i].task.required_workers * reqs[i].task.payable_amount))
  /\ reqs' = [reqs EXCEPT ![i].pc = "done", ![i].status = 201, ![i].id = FreeTaskId]
  /\ UNCHANGED <<submissions, withdrawals, payments>>

\* task.status = "active"; insertOne(task), then 201.
CreateTaskInsert(i) ==
  /\ reqs[i].op = "createTask" /\ reqs[i].pc = "insert"
  /\ FreeTaskId # 0
  /\ tasks' = [tasks EXCEPT ![FreeTaskId] = reqs[i].task]
  /\ original' = [original EXCEPT ![FreeTaskId] = reqs[i].task.required_workers]
  /\ reqs' = [reqs EXCEPT ![i].pc = "done", ![i].status = 201, ![i].id = FreeTaskId]
  /\ UNCHANGED <<users, submissions, withdrawals, payments>>

\* ------------------------------------------------------------ specifications

\* The requests clients send, by route.
ReceiveClaim ==
  CanReceive /\ \E t \in KnownTaskIds, p \in PayAmounts : ClaimInsert(t, "worker", p)
ReceiveApprove ==
  CanReceive /\ \E s \in SubmissionIds, e \in {"worker", "buyer"}, p \in PayAmounts : ApproveCredit(s, e, p)
ReceiveReject ==
  CanReceive /\ \E s \in SubmissionIds, t \in KnownTaskIds : RejectInc(s, t)
ReceiveDelete ==
  CanReceive /\ \E t \in KnownTaskIds : DeleteFind(t)
ReceiveAdminDelete ==
  CanReceive /\ \E t \in KnownTaskIds : AdminDeleteFind(t)
ReceiveWithdraw ==
  CanReceive /\ \E c \in WithdrawCoins : WithdrawInsert("worker", c)
ReceiveWithdrawApprove ==
  CanReceive /\ \E w \in WithdrawalIds : WithdrawApproveFind(w)
ReceiveMint ==
  CanReceive /\ \E e \in {"worker", "guest"}, c \in MintCoins, x \in TxnIds : MintInsert(e, c, x)
ReceivePatchCoins ==
  CanReceive /\ \E c \in SetCoins : PatchCoins("worker", c)
ReceiveRegister ==
  CanReceive /\ \E e \in {"worker", "guest"}, r \in Roles : RegisterFind(e, r)
ReceiveCreateTask ==
  CanReceive /\ \E e \in {"buyer", "guest"}, n \in NewSlots : CreateTaskFind(e, n, InitPay)

\* The database commands of the requests in flight.
StepClaim == \E i \in 1..Len(reqs) : ClaimDec(i)
StepApprove == \E i \in 1..Len(reqs) : ApproveSet(i)
StepReject == \E i \in 1..Len(reqs) : RejectSet(i)
StepDelete == \E i \in 1..Len(reqs) : DeleteRefund(i) \/ DeleteRemove(i)
StepAdminDelete == \E i \in 1..Len(reqs) : AdminDeleteRefund(i) \/ AdminDeleteRemove(i)
StepWithdraw == \E i \in 1..Len(reqs) : WithdrawDebit(i)
StepWithdrawApprove == \E i \in 1..Len(reqs) : WithdrawApproveSet(i)
StepMint == \E i \in 1..Len(reqs) : MintCredit(i)
StepRegister == \E i \in 1..Len(reqs) : RegisterInsert(i)
StepCreateTask == \E i \in 1..Len(reqs) : CreateTaskInsert(i)

LedgerReceive ==
  ReceiveClaim \/ ReceiveApprove \/ ReceiveReject \/ ReceiveDelete \/ ReceiveAdminDelete
LedgerStep == StepClaim \/ StepApprove \/ StepReject \/ StepDelete \/ StepAdminDelete

CoinReceive ==
  ReceiveWithdraw \/ ReceiveWithdrawApprove \/ ReceiveMint \/ ReceivePatchCoins
    \/ ReceiveRegister
CoinStep == StepWithdraw \/ StepWithdrawApprove \/ StepMint \/ StepRegister

\* Every route, the handlers interleaving at their awaits.
Next ==
  \/ LedgerReceive \/ LedgerStep
  \/ CoinReceive \/ CoinStep
  \/ ReceiveCreateTask \/ StepCreateTask

Spec == Init /\ [][Next]_vars

\* Slot-claims only, running concurrently.
ClaimNext == ReceiveClaim \/ StepClaim
ClaimSpec == Init /\ [][ClaimNext]_vars

\* The task, submission and review routes, running concurrently.
LedgerNext == LedgerReceive \/ LedgerStep
LedgerSpec == Init /\ [][LedgerNext]_vars

\* The same routes, each request answered before the next is received.
SeqLedgerNext == (Quiet /\ LedgerReceive) \/ LedgerStep
SeqLedgerSpec == Init /\ [][SeqLedgerNext]_vars

\* The coin routes, running concurrently.
CoinNext == CoinReceive \/ CoinStep
CoinSpec == Init /\ [][CoinNext]_vars

\* Withdrawal requests and approvals only, running concurrently.
WithdrawNext ==
  ReceiveWithdraw \/ StepWithdraw \/ ReceiveWithdrawApprove \/ StepWithdrawApprove
WithdrawSpec == Init /\ [][WithdrawNext]_vars

\* Slot-claims and their reviews only, running concurrently.
ReviewNext ==
  ReceiveClaim \/ StepClaim \/ ReceiveApprove \/ StepApprove \/ ReceiveReject \/ StepReject
ReviewSpec == Init /\ [][ReviewNext]_vars

\* Task creations and registrations only, running concurrently.
TaskNext == ReceiveCreateTask \/ StepCreateTask \/ ReceiveRegister \/ StepRegister
TaskSpec == Init /\ [][TaskNext]_vars

\* --------------------------------------------------------- storage failures

\* The handlers whose body is inside try/catch: PATCH /withdrawals/approve/:id
\* (646-668) and DELETE /admin/tasks/:id (730-753) answer 500 from the catch.
\* No other handler of these routes has one, and the application installs no
\* error middleware.
HasTryCatch(op) == op \in {"withdrawApprove", "adminDelete"}

\* What becomes of a request whose awaited database command rejects.  Inside
\* try/catch the handler answers 500.  Elsewhere the async handler's promise
\* rejects with nobody awaiting it: the request is never answered ("lost"),
\* unless the router forwards rejected promises to its default error handler,
\* which answers 500; the source does not say which Express it runs on.
FailureOutcomes(op) == IF HasTryCatch(op) THEN {"caught"} ELSE {"lost", "forwarded"}
AfterFailure(r, outcome) ==
  IF outcome = "lost"
  THEN [r EXCEPT !.pc = "lost", !.status = 0]
  ELSE [r EXCEPT !.pc = "done", !.status = 500]

\* A request that awaits a database command.
Awaiting(r) == r.pc \notin {"done", "lost"}

\* The first database command of a request rejects: nothing is written.
FirstCommandFails(op) ==
  /\ \E outcome \in FailureOutcomes(op) :
       reqs' = Append(reqs, AfterFailure(Req(op, "start", 0, "", 0, 0, 0), outcome))
  /\ UNCHANGED <<users, tasks, submissions, withdrawals, payments, original>>

\* A later database command of request i rejects: the commands before it stay
\* applied, this one and the ones after it are not run.
CommandFails(i) ==
  /\ Awaiting(reqs[i])
  /\ \E outcome \in FailureOutcomes(reqs[i].op) :
       reqs' = [reqs EXCEPT ![i] = AfterFailure(reqs[i], outcome)]
  /\ UNCHANGED <<users, tasks, submissions, withdrawals, payments, original>>

\* The routes followed under storage failures.
FaultOps == {"claim", "approve", "reject", "delete", "withdraw", "mint", "withdrawApprove"}
FaultReceive ==
  \/ ReceiveClaim \/ ReceiveApprove \/ ReceiveReject \/ ReceiveDelete
  \/ ReceiveWithdraw \/ ReceiveMint \/ ReceiveWithdrawApprove
  \/ (CanReceive /\ \E op \in FaultOps : FirstCommandFails(op))
FaultStep ==
  \/ StepClaim \/ StepApprove \/ StepReject \/ StepDelete
  \/ StepWithdraw \/ StepMint \/ StepWithdrawApprove
StepFails == \E i \in 1..Len(reqs) : CommandFails(i)

\* No request awaits a command: each was answered or is lost.
Settled == \A i \in 1..Len(reqs) : ~Awaiting(reqs[i])

\* Requests arrive one after another; each awaited command completes or
\* rejects (the driver settles every promise it returns).
FaultNext == (Settled /\ FaultReceive) \/ FaultStep \/ StepFails
FaultSpec == Init /\ [][FaultNext]_vars /\ WF_vars(FaultStep \/ StepFails)

\* ------------------------------------------------------- one task, two workers

\* A buyer, two workers and the buyer's task with two slots paying 5 each, as
\* POST /users and POST /tasks store them.
E2ETask == TaskDoc("buyer", 2, 5, "active")
E2EInit ==
  /\ users = << [email |-> "buyer", role |-> "Buyer", coins |-> BuyerGrant],
                [email |-> "workerA", role |-> "Worker", coins |-> WorkerGrant],
                [email |-> "workerB", role |-> "Worker", coins |-> WorkerGrant] >>
  /\ tasks = [t \in TaskIds |-> IF t = 1 THEN E2ETask ELSE NoTask]
  /\ submissions = << >>
  /\ withdrawals = << >>
  /\ payments = << >>
  /\ reqs = << >>
  /\ original = [t \in TaskIds |-> IF t = 1 THEN E2ETask.required_workers ELSE 0]

\* The end-to-end sequence: A claims, B claims, A's submission (1) is approved,
\* B's submission (2) is rejected, the task (1) is deleted.
E2EScript ==
  << [op |-> "claim", email |-> "workerA", id |-> 1],
     [op |-> "claim", email |-> "workerB", id |-> 2],
     [op |-> "approve", email |-> "workerA", id |-> 1],
     [op |-> "reject", email |-> "", id |-> 2],
     [op |-> "delete", email |-> "buyer", id |-> 1] >>

\* The requests the client application sends, one after another, in any
\* order: a worker claims a slot of the task, and the buyer approves or rejects
\* a stored submission (the body repeating the submission's fields) or deletes
\* the task; as many requests as E2EScript has.
E2EReceive ==
  /\ Quiet /\ Len(reqs) < Len(E2EScript)
  /\ \/ \E w \in {"workerA", "workerB"} : ClaimInsert(1, w, E2ETask.payable_amount)
     \/ \E s \in 1..Len(submissions) :
          ApproveCredit(s, submissions[s].worker_email, submissions[s].payable_amount)
     \/ \E s \in 1..Len(submissions) : RejectInc(s, submissions[s].task_id)
     \/ DeleteFind(1)
E2ENext == E2EReceive \/ StepClaim \/ StepApprove \/ StepReject \/ StepDelete
E2ESpec == E2EInit /\ [][E2ENext]_vars

\* ------------------------------------------------------- claims: vocabulary

ReqIds == 1..Len(reqs)
Succeeded(r) == r.pc = "done" /\ r.status \in {200, 201}
Failed(r) == r.pc = "done" /\ r.status >= 400

\* In this step request i is received, or request i moves.
Received(i) == Len(reqs') = Len(reqs) + 1 /\ i = Len(reqs')
Moves(i) == i \in 1..Len(reqs) /\ reqs'[i] # reqs[i]
ActsNow(i) == Received(i) \/ Moves(i)

ActiveTask(t) == tasks[t].doc = "present" /\ tasks[t].status = "active"

\* Submissions against task t that hold a slot.
Holding(t) ==
  {s \in 1..Len(submissions) :
     submissions[s].task_id = t /\ submissions[s].status \in {"pending", "approved"}}

RECURSIVE SumCoins(_, _)
SumCoins(us, n) == IF n = 0 THEN 0 ELSE us[n].coins + SumCoins(us, n - 1)

RECURSIVE SumGrants(_, _)
SumGrants(us, n) == IF n = 0 THEN 0 ELSE StartingCoins(us[n].role) + SumGrants(us, n - 1)

RECURSIVE SumPurchases(_, _)
SumPurchases(ps, n) == IF n = 0 THEN 0 ELSE ps[n].coins + SumPurchases(ps, n - 1)

RECURSIVE SumWithdrawals(_, _, _)
SumWithdrawals(ws, st, n) ==
  IF n = 0 THEN 0
  ELSE (IF ws[n].status = st THEN ws[n].withdrawal_coin ELSE 0)
         + SumWithdrawals(ws, st, n - 1)

\* withdrawal_coin summed over the withdrawal requests answered 201.
RECURSIVE Withdrawn(_)
Withdrawn(n) ==
  IF n = 0 THEN 0
  ELSE (IF reqs[n].op = "withdraw" /\ Succeeded(reqs[n]) THEN reqs[n].amount ELSE 0)
         + Withdrawn(n - 1)

\* ------------------------------------------------------------------ claims

\* C1: of N > k slot-claims against an active task stored with
\* required_workers = k, exactly k succeed, the other N - k fail, and the task
\* ends with required_workers = 0.  (ClaimSpec: slot-claims only.)
C1_ExactlyKClaimsSucceed ==
  \A t \in TaskIds :
    LET claimsOn == {i \in ReqIds : reqs[i].op = "claim" /\ reqs[i].taskId = t}
        won == {i \in claimsOn : Succeeded(reqs[i])}
        lost == {i \in claimsOn : Failed(reqs[i])}
    IN  (ActiveTask(t) /\ Quiet /\ Cardinality(claimsOn) > original[t])
          => /\ Cardinality(won) = original[t]
             /\ Cardinality(lost) = Cardinality(claimsOn) - original[t]
             /\ tasks[t].required_workers = 0

\* C2: in every reachable state every stored task's required_workers is >= 0.
C2_SlotsNeverNegative ==
  \A t \in TaskIds : tasks[t].doc = "present" => tasks[t].required_workers >= 0

\* C3: in every reachable state every user's coins balance is >= 0.
C3_CoinsNeverNegative ==
  \A u \in 1..Len(users) : users[u].coins >= 0

\* C4: of the approve calls answered for one submission at most one succeeds,
\* and an approve call received for a submission that is already approved
\* credits no one.
C4_ApprovedAtMostOnce ==
  \A i, j \in ReqIds :
    (/\ i < j
     /\ reqs[i].op = "approve" /\ reqs[j].op = "approve"
     /\ reqs[i].id = reqs[j].id /\ reqs[i].id \in 1..Len(submissions))
      => ~(Succeeded(reqs[i]) /\ Succeeded(reqs[j]))

C4_NoSecondCredit ==
  \A i \in 1..Len(reqs') :
    (/\ Received(i) /\ reqs'[i].op = "approve"
     /\ reqs'[i].id \in 1..Len(submissions)
     /\ submissions[reqs'[i].id].status = "approved")
      => users' = users

\* C4: approving a submission twice: the second call fails and the worker is
\* credited once.
C4_SecondApproveFails == [] C4_ApprovedAtMostOnce /\ [][C4_NoSecondCredit]_vars

\* C5: of the mint calls answered for one transactionId at most one succeeds,
\* at most one purchase record is kept for it, and a mint call credits nothing
\* once another call with its transactionId has succeeded.
C5_OneRecordPerToken ==
  /\ \A i, j \in ReqIds :
       (i < j /\ reqs[i].op = "mint" /\ reqs[j].op = "mint" /\ reqs[i].id = reqs[j].id)
         => ~(Succeeded(reqs[i]) /\ Succeeded(reqs[j]))
  /\ \A k, l \in 1..Len(payments) :
       payments[k].transactionId = payments[l].transactionId => k = l

C5_NoSecondCredit ==
  \A i \in ReqIds :
    (/\ Moves(i) /\ reqs[i].op = "mint"
     /\ \E j \in ReqIds :
          /\ j # i /\ reqs[j].op = "mint" /\ reqs[j].id = reqs[i].id
          /\ Succeeded(reqs[j]))
      => users' = users

\* C5: minting twice with one transactionId: the second call is rejected,
\* appends no record and credits nothing.
C5_MintIdempotent == [] C5_OneRecordPerToken /\ [][C5_NoSecondCredit]_vars

\* C6: the withdrawal requests that succeed never take, in sum, more than the
\* worker's balance before them, and leave no balance below 0.
\* (WithdrawSpec: withdrawal routes only; the worker starts with WorkerGrant.)
C6_WithdrawalsWithinBalance ==
  (\A i \in ReqIds : reqs[i].op = "withdraw" => reqs[i].amount > 0)
    => /\ Withdrawn(Len(reqs)) <= WorkerGrant
       /\ \A u \in 1..Len(users) : users[u].coins >= 0

\* C7: when every request received has been answered, each active task's
\* required_workers is its original slot count minus the number of pending
\* or approved submissions against it.
C7_SlotsMatchSubmissions ==
  Quiet =>
    \A t \in TaskIds :
      ActiveTask(t)
        => tasks[t].required_workers = original[t] - Cardinality(Holding(t))

\* C8: when every request received has been answered, the users' coins plus
\* the pending withdrawal amounts equal the coins minted (registration grants
\* and purchases) minus the approved withdrawal amounts.
C8_CoinsConserved ==
  Quiet =>
    SumCoins(users, Len(users))
        + SumWithdrawals(withdrawals, "pending", Len(withdrawals))
      = SumGrants(users, Len(users)) + SumPurchases(payments, Len(payments))
        - SumWithdrawals(withdrawals, "approved", Len(withdrawals))

\* C9: a submission that is approved or rejected keeps its status, and an
\* approve or reject call acting on it changes neither a task nor a balance
\* and does not succeed.
C9_StatusFinal ==
  \A s \in 1..Len(submissions) :
    submissions[s].status # "pending"
      => /\ submissions'[s].status = submissions[s].status
         /\ \A i \in 1..Len(reqs') :
              (reqs'[i].op \in {"approve", "reject"} /\ reqs'[i].id = s /\ ActsNow(i))
                => tasks' = tasks /\ users' = users /\ ~Succeeded(reqs'[i])

\* C9: a submission's status changes at most once; a later review of it fails
\* and changes nothing.
C9_ReviewedOnce == [][C9_StatusFinal]_vars
\* C10: a delete of a stored task credits the task's buyer, once, with
\* required_workers x payable_amount as the task stands when it is credited,
\* if the task is active, and credits no one otherwise; it then removes the
\* task and succeeds.  (SeqLedgerSpec: each request is answered before the next
\* is received.)
IsDelete(r) == r.op \in {"delete", "adminDelete"}

\* users with amount d added to the coins of every user whose email is e.
Credited(before, after, e, d) ==
  /\ Len(after) = Len(before)
  /\ \A u \in 1..Len(before) :
       /\ after[u].email = before[u].email
       /\ after[u].coins = before[u].coins + (IF before[u].email = e THEN d ELSE 0)

C10_DeleteStep ==
  \A i \in 1..Len(reqs') :
    (IsDelete(reqs'[i]) /\ ActsNow(i) /\ tasks[reqs'[i].id].doc = "present")
      => LET t == tasks[reqs'[i].id]
         IN  \* the task is read: only an active task's delete goes on to the refund
             /\ Received(i)
                  => /\ users' = users /\ tasks' = tasks
                     /\ (reqs'[i].pc = "refund") <=> (t.status = "active")
                     /\ (reqs'[i].pc = "remove") <=> (t.status # "active")
             \* the refund: exactly required_workers x payable_amount, to the buyer
             /\ (Moves(i) /\ reqs[i].pc = "refund")
                  => /\ t.status = "active"
                     /\ Credited(users, users', t.buyer_email,
                                 t.required_workers * t.payable_amount)
                     /\ tasks' = tasks
                     /\ reqs'[i].pc = "remove"
             \* the removal, and the answer
             /\ (Moves(i) /\ reqs[i].pc = "remove")
                  => /\ users' = users
                     /\ tasks'[reqs[i].id].doc = "deleted"
                     /\ Succeeded(reqs'[i])

\* C10: deleting an active task credits its buyer exactly
\* required_workers x payable_amount and removes it; deleting a task that is
\* not active removes it and credits no one.
C10_DeleteRefunds == [][C10_DeleteStep]_vars

\* An active task with open slots was deleted and its buyer holds the refund.
C10_Witness ==
  \E i \in ReqIds :
    /\ IsDelete(reqs[i]) /\ Succeeded(reqs[i])
    /\ reqs[i].task.status = "active"
    /\ reqs[i].task.required_workers * reqs[i].task.payable_amount > 0
    /\ tasks[reqs[i].id].doc = "deleted"
    /\ users[UserIndex(users, "buyer")].coins
         = BuyerGrant + reqs[i].task.required_workers * reqs[i].task.payable_amount

\* The delete requests on task t, and those of them that have credited the
\* buyer (the refund of an active task they read).
DeletesOf(t) == {i \in ReqIds : IsDelete(reqs[i]) /\ reqs[i].id = t}
RefundedBy(t) ==
  {i \in DeletesOf(t) :
     /\ reqs[i].task.doc = "present" /\ reqs[i].task.status = "active"
     /\ reqs[i].pc \in {"remove", "done"}}

\* C11: of the deletes issued on one active task, through either delete
\* route, sequentially or concurrently, exactly one refunds the buyer; every
\* other one fails with 404 (not found) and credits nothing.
C11_RefundedOnce ==
  \A t \in TaskIds :
    /\ Cardinality(RefundedBy(t)) <= 1
    /\ \A i \in DeletesOf(t), j \in RefundedBy(t) :
         (i # j /\ reqs[i].pc = "done")
           => reqs[i].status = 404 /\ reqs[i].amount = 0

\* The balance the first user with this email holds (0: no such user).
CoinsOf(us, email) ==
  IF UserIndex(us, email) = 0 THEN 0 ELSE us[UserIndex(us, email)].coins

C12_Step ==
  \A i \in 1..Len(reqs') :
    (/\ Received(i) /\ reqs'[i].op = "withdraw"
     /\ reqs'[i].amount > CoinsOf(users, reqs'[i].email))
      => /\ Failed(reqs'[i])
         /\ users' = users
         /\ withdrawals' = withdrawals

\* C12: a withdrawal request for more coins than the worker's balance holds
\* fails, leaves the balance as it was and stores no withdrawal.
C12_InsufficientBalance == [][C12_Step]_vars

C13_Step ==
  \A i \in 1..Len(reqs') :
    (reqs'[i].op = "withdraw" /\ ActsNow(i))
      => /\ (Received(i) /\ reqs'[i].amount <= 0)
              => /\ Failed(reqs'[i])
                 /\ users' = users
                 /\ withdrawals' = withdrawals
         /\ Len(users') = Len(users)
         /\ \A u \in 1..Len(users) : users'[u].coins <= users[u].coins

\* C13: a withdrawal request is accepted only with withdrawal_coin > 0; one
\* with zero or a negative withdrawal_coin is rejected, and no step of a
\* withdrawal request raises a balance.
C13_PositiveOnly == [][C13_Step]_vars

C14_Step ==
  \A i \in 1..Len(reqs') :
    /\ (reqs'[i].op = "withdraw" /\ Received(i) /\ ~Failed(reqs'[i]))
         => /\ withdrawals' = Append(withdrawals,
                  [worker_email |-> reqs'[i].email,
                   withdrawal_coin |-> reqs'[i].amount, status |-> "pending"])
            /\ reqs'[i].id = Len(withdrawals')
            /\ reqs'[i].pc = "debit"
            /\ users' = users
    /\ (reqs'[i].op = "withdraw" /\ Moves(i))
         => /\ Credited(users, users', reqs[i].email, -reqs[i].amount)
            /\ withdrawals' = withdrawals
            /\ Succeeded(reqs'[i])
    /\ (reqs'[i].op = "withdrawApprove" /\ ActsNow(i))
         => /\ users' = users
            /\ Len(withdrawals') = Len(withdrawals)
            /\ \A w \in 1..Len(withdrawals) :
                 IF Moves(i) /\ w = reqs[i].id
                 THEN withdrawals'[w] = [withdrawals[w] EXCEPT !.status = "approved"]
                 ELSE withdrawals'[w] = withdrawals[w]

C15_Step ==
  /\ \A i \in 1..Len(reqs') :
       (/\ Received(i) /\ reqs'[i].op = "withdrawApprove"
        /\ reqs'[i].id \in 1..Len(withdrawals)
        /\ withdrawals[reqs'[i].id].status = "approved")
         => /\ reqs'[i].pc = "done" /\ reqs'[i].status = 400
            /\ users' = users /\ withdrawals' = withdrawals
  /\ \A w \in 1..Len(withdrawals) :
       withdrawals[w].status = "approved" => withdrawals'[w].status = "approved"

ReviewsPending(i, op) ==
  /\ Received(i) /\ reqs'[i].op = op
  /\ reqs'[i].id \in 1..Len(submissions)
  /\ submissions[reqs'[i].id].status = "pending"

\* The task a stored submission was made against (NoTask: not stored).
TaskOf(s) == FindTask(tasks, submissions[s].task_id)

C16_Step ==
  \A i \in 1..Len(reqs') :
    /\ (ReviewsPending(i, "reject") /\ TaskOf(reqs'[i].id).status = "active")
         => /\ tasks' = IncRequiredWorkers(tasks, submissions[reqs'[i].id].task_id, 1)
            /\ users' = users
            /\ reqs'[i].pc = "set"
    /\ (Moves(i) /\ reqs[i].op = "reject")
         => /\ submissions' = SetSubmissionStatus(submissions, reqs[i].id, "rejected")
            /\ users' = users
            /\ Succeeded(reqs'[i])

\* C16: a reject of a pending submission whose task is stored and active adds
\* exactly 1 to that task's required_workers, sets the submission to rejected,
\* succeeds, and changes no balance.
C16_RejectReturnsSlot == [][C16_Step]_vars

C17_Step ==
  \A i \in 1..Len(reqs') :
    (reqs'[i].op = "approve" /\ ActsNow(i))
      => /\ tasks' = tasks
         /\ withdrawals' = withdrawals /\ payments' = payments
         /\ Received(i)
              => /\ Credited(users, users', reqs'[i].email, reqs'[i].amount)
                 /\ submissions' = submissions
         /\ Moves(i)
              => /\ users' = users
                 /\ submissions' = SetSubmissionStatus(submissions, reqs[i].id, "approved")
                 /\ Succeeded(reqs'[i])

\* C17: an approve changes no task's required_workers (nor any other field of
\* a task): all it does is credit the user it names and set the submission's
\* status to approved.
C17_ApproveKeepsSlots == [][C17_Step]_vars

\* A claimed submission was approved and paid, and the slot it took is still
\* taken.
C17_Witness ==
  \E i \in ReqIds :
    /\ reqs[i].op = "approve" /\ Succeeded(reqs[i])
    /\ reqs[i].id \in 1..Len(submissions)
    /\ submissions[reqs[i].id].status = "approved"
    /\ Len(submissions) = 1 /\ submissions[1].task_id = 1
    /\ tasks[1].required_workers = InitSlots - 1
    /\ reqs[i].email = "worker" /\ reqs[i].amount > 0
    /\ CoinsOf(users, "worker") >= WorkerGrant + reqs[i].amount

C18_Step ==
  \A i \in 1..Len(reqs') :
    /\ (ReviewsPending(i, "reject") /\ TaskOf(reqs'[i].id).status # "active")
         => /\ tasks' = tasks
            /\ users' = users
            /\ reqs'[i].pc = "set"
    /\ (Moves(i) /\ reqs[i].op = "reject")
         => /\ submissions' = SetSubmissionStatus(submissions, reqs[i].id, "rejected")
            /\ tasks' = tasks
            /\ Succeeded(reqs'[i])

C19_Step ==
  \A i \in 1..Len(reqs') :
    /\ (/\ ReviewsPending(i, "approve")
        /\ submissions[reqs'[i].id].task_id \in TaskIds
        /\ tasks[submissions[reqs'[i].id].task_id].doc = "deleted")
         => /\ Credited(users, users', submissions[reqs'[i].id].worker_email,
                        submissions[reqs'[i].id].payable_amount)
            /\ reqs'[i].pc = "set"
    /\ (Moves(i) /\ reqs[i].op = "approve")
         => /\ submissions' = SetSubmissionStatus(submissions, reqs[i].id, "approved")
            /\ Succeeded(reqs'[i])

\* C19: an approve of a pending submission whose task has been deleted
\* succeeds, sets the submission to approved and credits the submission's
\* worker the payable_amount stored on the submission.
C19_ApproveAfterDelete == [][C19_Step]_vars

C20_Step ==
  \A i \in 1..Len(reqs') :
    (/\ Received(i) /\ reqs'[i].op = "approve"
     /\ reqs'[i].id \in 1..Len(submissions))
      => LET sub == submissions[reqs'[i].id]
         IN  /\ reqs'[i].amount # sub.payable_amount
                  => /\ Failed(reqs'[i])
                     /\ users' = users
                     /\ submissions' = submissions
             /\ ~Failed(reqs'[i])
                  => Credited(users, users', sub.worker_email, sub.payable_amount)

\* C20: an approve whose payableAmount is not the payable_amount stored on
\* the submission fails and changes neither the submission nor a balance; an
\* approve that goes through credits the stored payable_amount to the
\* submission's worker_email.
C20_CapturedAmountOnly == [][C20_Step]_vars

\* Request i is a slot-claim received in this step; the task it names as the
\* database holds it (NoTask: none).
ClaimReceived(i) == Received(i) /\ reqs'[i].op = "claim"
ClaimedTask(i) == FindTask(tasks, reqs'[i].taskId)

C21_Step ==
  \A i \in 1..Len(reqs') :
    (ClaimReceived(i) /\ ClaimedTask(i).doc # "present")
      => /\ reqs'[i].pc = "done" /\ reqs'[i].status = 404
         /\ submissions' = submissions

\* C21: a slot-claim naming a task the database does not hold fails with 404
\* (not found) and stores no submission.
C21_ClaimUnknownTask == [][C21_Step]_vars

C22_Step ==
  \A i \in 1..Len(reqs') :
    (/\ ClaimReceived(i) /\ ClaimedTask(i).doc = "present"
     /\ (ClaimedTask(i).status # "active" \/ ClaimedTask(i).required_workers = 0))
      => /\ Failed(reqs'[i])
         /\ submissions' = submissions
         /\ tasks' = tasks

\* C22: a slot-claim against a stored task that is not active, or has
\* required_workers = 0, fails, stores no submission and leaves
\* required_workers as it was.
C22_ClaimUnavailableTask == [][C22_Step]_vars

C23_Step ==
  \A i \in 1..Len(reqs') :
    /\ (/\ ClaimReceived(i) /\ ClaimedTask(i).doc = "present"
        /\ ClaimedTask(i).status = "active" /\ ClaimedTask(i).required_workers > 0)
         => /\ submissions' = Append(submissions,
                  [task_id |-> reqs'[i].taskId, worker_email |-> reqs'[i].email,
                   payable_amount |-> ClaimedTask(i).payable_amount,
                   status |-> "pending"])
            /\ users' = users
            /\ reqs'[i].pc = "dec"
    /\ (Moves(i) /\ reqs[i].op = "claim")
         => /\ tasks' = IncRequiredWorkers(tasks, reqs[i].taskId, -1)
            /\ submissions' = submissions
            /\ users' = users
            /\ Succeeded(reqs'[i])

\* C23: a slot-claim against an active task with an open slot stores exactly
\* one submission, pending, with the payable_amount the task holds, takes
\* exactly 1 from that task's required_workers and from no other task, changes
\* no balance, and succeeds.
C23_ClaimEffect == [][C23_Step]_vars

C25_Step ==
  \A i \in 1..Len(reqs') :
    (reqs'[i].op = "mint" /\ ActsNow(i))
      => /\ (Received(i) /\ Failed(reqs'[i]))
              => payments' = payments /\ users' = users
         /\ (Moves(i) /\ Succeeded(reqs'[i]))
              => /\ \E k \in 1..Len(payments') :
                      /\ payments'[k].transactionId = reqs[i].id
                      /\ payments'[k].email = reqs[i].email
                      /\ payments'[k].coins = reqs[i].amount
                 /\ UserIndex(users, reqs[i].email) # 0
                 /\ Credited(users, users', reqs[i].email, reqs[i].amount)

\* C25: a mint that completes with success has stored its purchase record and
\* credited the record's coins to a stored user with the record's email; a
\* mint that fails has done neither.
C25_RecordIffCredit == [][C25_Step]_vars

\* The ledger's coin movements: a request and the amount it adds.
LedgerDelta(r) ==
  IF r.op \in {"mint", "approve", "delete", "adminDelete"} THEN r.amount
  ELSE IF r.op = "withdraw" THEN -r.amount
  ELSE 0

C27_Step ==
  (Len(users') = Len(users) /\ \E u \in 1..Len(users) : users'[u].coins # users[u].coins)
    => \E i \in 1..Len(reqs') :
         /\ ActsNow(i)
         /\ reqs'[i].op \in {"mint", "approve", "delete", "adminDelete", "withdraw"}
         /\ Credited(users, users', reqs'[i].email, LedgerDelta(reqs'[i]))

\* C27: every step that changes a stored user's coins is a step of a mint, an
\* approval, a deletion refund or a withdrawal request, and adds that
\* request's amount (takes it, for a withdrawal); no step sets a balance.
C27_OnlyLedgerMoves == [][C27_Step]_vars

C28_UniqueEmails ==
  \A u, v \in 1..Len(users) : users[u].email = users[v].email => u = v

C28_RejectsExisting ==
  \A i \in 1..Len(reqs') :
    (/\ Received(i) /\ reqs'[i].op = "register"
     /\ UserIndex(users, reqs'[i].email) # 0)
      => Failed(reqs'[i]) /\ users' = users

\* C28: no two stored users have the same email, however registrations
\* interleave, and a registration for an email a stored user has fails and
\* changes nothing.
C28_EmailsUnique == [] C28_UniqueEmails /\ [][C28_RejectsExisting]_vars

C29_Step ==
  \A i \in 1..Len(reqs') :
    (Moves(i) /\ reqs[i].op = "register")
      => /\ users' = Append(users,
               [email |-> reqs[i].email, role |-> reqs[i].role,
                coins |-> IF reqs[i].role = "Worker" THEN 10
                          ELSE IF reqs[i].role = "Buyer" THEN 50
                          ELSE 0])
         /\ Succeeded(reqs'[i])

\* C29: a registration that stores a user stores it with 10 coins for role
\* Worker, 50 for role Buyer and 0 for role Admin.
C29_StartingBalanceByRole == [][C29_Step]_vars

\* A registration with role Buyer succeeded and its user holds 50 coins.
C29_Witness ==
  /\ \E i \in ReqIds :
       reqs[i].op = "register" /\ Succeeded(reqs[i]) /\ reqs[i].role = "Buyer"
  /\ \E u \in 1..Len(users) :
       users[u].email = "guest" /\ users[u].role = "Buyer" /\ users[u].coins = 50

\* In this step a database command of request i rejects.
FailsNow(i) ==
  /\ Moves(i) /\ Awaiting(reqs[i])
  /\ reqs'[i].pc = "lost" \/ (reqs'[i].pc = "done" /\ reqs'[i].status = 500)

C24_Step ==
  \A i \in 1..Len(reqs) :
    FailsNow(i)
      => \* the command that rejects is the second write: the first is taken back
         /\ (reqs[i].op = "claim" /\ reqs[i].pc = "dec")
              => submissions' = SubSeq(submissions, 1, reqs[i].id - 1)
                                  \o SubSeq(submissions, reqs[i].id + 1, Len(submissions))
         /\ (reqs[i].op = "approve" /\ reqs[i].pc = "set")
              => Credited(users, users', reqs[i].email, -reqs[i].amount)
         /\ (reqs[i].op = "reject" /\ reqs[i].pc = "set")
              => tasks' = IncRequiredWorkers(tasks, reqs[i].taskId, -1)
         /\ (IsDelete(reqs[i]) /\ reqs[i].pc = "remove" /\ reqs[i].task.status = "active")
              => Credited(users, users', reqs[i].task.buyer_email, -reqs[i].amount)
         /\ (reqs[i].op = "withdraw" /\ reqs[i].pc = "debit")
              => withdrawals' = SubSeq(withdrawals, 1, reqs[i].id - 1)
                                  \o SubSeq(withdrawals, reqs[i].id + 1, Len(withdrawals))
         /\ (reqs[i].op = "mint" /\ reqs[i].pc = "credit")
              => Len(payments') = Len(payments) - 1

\* C24: when the second write of a slot-claim, approve, reject, delete with
\* refund, withdrawal request or mint fails, the first write is taken back, so
\* that the database is as it would be had the request never started.
C24_AllOrNothing == [][C24_Step]_vars

\* Request k was received; request k has its response.
HasRequest(k) == k \in 1..Len(reqs)
Answered(k) == HasRequest(k) /\ reqs[k].pc = "done"

C26_AnsweredOnce ==
  \A i \in 1..Len(reqs) : reqs[i].pc = "done" => reqs'[i] = reqs[i]

\* C26: every request received is eventually answered, with success or with
\* an error, also when one of its database commands fails, and it is answered
\* once.
C26_FailureSurfaced ==
  /\ \A k \in 1..MaxReq : [](HasRequest(k) => <>Answered(k))
  /\ [][C26_AnsweredOnce]_vars

\* The first k requests of E2EScript, and no other, were received and answered.
Ran(k) ==
  /\ Quiet /\ Len(reqs) = k
  /\ \A j \in 1..k :
       /\ reqs[j].op = E2EScript[j].op
       /\ reqs[j].email = E2EScript[j].email
       /\ reqs[j].id = E2EScript[j].id

\* C30: with a task of 2 slots paying 5: after A's claim the task has 1 slot;
\* after B's claim 0; after the approval of A's submission A holds 5 more and
\* the task still has 0; after the rejection of B's the task has 1 and B's
\* balance is as it was; after the deletion the buyer holds 1 x 5 more and the
\* task is gone.  Every one of the five requests succeeds.
C30_EndToEnd ==
  /\ \A k \in 1..Len(E2EScript) :
       Ran(k) => \A j \in 1..k : Succeeded(reqs[j])
  /\ Ran(1) => /\ tasks[1].required_workers = 1
               /\ submissions[1].status = "pending" /\ submissions[1].payable_amount = 5
  /\ Ran(2) => /\ tasks[1].required_workers = 0
               /\ CoinsOf(users, "workerA") = 10 /\ CoinsOf(users, "workerB") = 10
  /\ Ran(3) => /\ CoinsOf(users, "workerA") = 10 + 5
               /\ tasks[1].required_workers = 0
               /\ submissions[1].status = "approved"
  /\ Ran(4) => /\ tasks[1].required_workers = 1
               /\ CoinsOf(users, "workerB") = 10
               /\ submissions[2].status = "rejected"
  /\ Ran(5) => /\ CoinsOf(users, "buyer") = 50 + 5
               /\ tasks[1].doc = "deleted"
               /\ CoinsOf(users, "workerA") = 15 /\ CoinsOf(users, "workerB") = 10

\* The whole sequence has run: the task is deleted and the buyer was refunded
\* for the one slot the rejection returned.
C30_Witness ==
  /\ Ran(5)
  /\ tasks[1].doc = "deleted"
  /\ CoinsOf(users, "buyer") = BuyerGrant + 5

C31_Step ==
  \A i \in 1..Len(reqs) :
    (/\ Moves(i) /\ IsDelete(reqs[i]) /\ reqs[i].pc = "remove"
     /\ reqs[i].task.status = "active"
     /\ tasks[reqs[i].id].doc = "present")
      => reqs[i].amount
           = tasks[reqs[i].id].required_workers * tasks[reqs[i].id].payable_amount

\* C31: when a delete removes an active task, the refund it has credited to
\* the buyer is required_workers x payable_amount of the task as it is stored
\* at that moment, whatever slot-claims and rejections ran beside the delete.
C31_RefundAtRemoval == [][C31_Step]_vars

\* The coins paid out on task t by the first n requests: the credits of the
\* approvals of submissions against t, and the refunds of its deletes.
RECURSIVE PaidOut(_, _)
PaidOut(t, n) ==
  IF n = 0 THEN 0
  ELSE (IF /\ reqs[n].op = "approve"
           /\ reqs[n].id \in 1..Len(submissions)
           /\ submissions[reqs[n].id].task_id = t
        THEN reqs[n].amount
        ELSE IF IsDelete(reqs[n]) /\ reqs[n].id = t /\ reqs[n].pc \in {"remove", "done"}
        THEN reqs[n].amount
        ELSE 0)
       + PaidOut(t, n - 1)

\* C32: for every task, the coins credited by approvals of its submissions
\* plus the refunds credited on its deletion never exceed its total cost, the
\* required_workers it was stored with x its payable_amount.
C32_WithinTotalCost ==
  \A t \in TaskIds :
    original[t] > 0 => PaidOut(t, Len(reqs)) <= original[t] * InitPay

C33_Step ==
  \A i \in 1..Len(reqs') :
    (reqs'[i].op = "createTask" /\ ActsNow(i))
      => /\ users' = users
         /\ Received(i) => tasks' = tasks
         /\ Moves(i)
              => /\ \E t \in TaskIds :
                      /\ tasks[t].doc = "absent"
                      /\ tasks'[t] = [reqs[i].task EXCEPT !.status = "active"]
                      /\ tasks'[t].doc = "present"
                      /\ tasks'[t].buyer_email = reqs[i].email
                      /\ \A u \in TaskIds \ {t} : tasks'[u] = tasks[u]
                 /\ Succeeded(reqs'[i])

\* C33: a POST /tasks that stores a task stores it with status active, and no
\* step of a POST /tasks changes a user's coins.
C33_CreateDebitsNothing == [][C33_Step]_vars

\* The buyer has created a task: it is stored active and the buyer's coins
\* are what they were.
C33_Witness ==
  \E i \in ReqIds :
    /\ reqs[i].op = "createTask" /\ Succeeded(reqs[i]) /\ reqs[i].email = "buyer"
    /\ tasks[reqs[i].id].doc = "present" /\ tasks[reqs[i].id].status = "active"
    /\ tasks[reqs[i].id].required_workers * tasks[reqs[i].id].payable_amount > 0
    /\ CoinsOf(users, "buyer") = BuyerGrant

\* What a delete does to the users and the tasks, written without the route:
\* the route-blind request a delete appends on reading task id, and the
\* database after the next command of a delete request r.
RouteBlind(r) == [r EXCEPT !.op = "anyDelete"]
DeleteRead(ts, id) ==
  LET task == FindTask(ts, id)
  IN  IF task.doc # "present"
      THEN Req("anyDelete", "done", 404, "", id, id, 0)
      ELSE [Req("anyDelete", IF task.status = "active" THEN "refund" ELSE "remove",
                0, task.buyer_email, id, id, 0) EXCEPT !.task = task]
DeleteCommand(us, ts, r) ==
  IF r.pc = "refund"
  THEN [users |-> IncCoins(us, r.task.buyer_email,
                           r.task.required_workers * r.task.payable_amount),
        tasks |-> ts, pc |-> "remove", status |-> 0]
  ELSE [users |-> us, tasks |-> DeleteTask(ts, r.id), pc |-> "done", status |-> 200]

C34_Step ==
  \A i \in 1..Len(reqs') :
    (IsDelete(reqs'[i]) /\ ActsNow(i))
      => /\ Received(i)
              => /\ RouteBlind(reqs'[i]) = DeleteRead(tasks, reqs'[i].id)
                 /\ users' = users /\ tasks' = tasks
         /\ Moves(i)
              => LET next == DeleteCommand(users, tasks, reqs[i])
                 IN  /\ users' = next.users /\ tasks' = next.tasks
                     /\ reqs'[i].pc = next.pc /\ reqs'[i].status = next.status
                     /\ reqs'[i].op = reqs[i].op

\* C34: DELETE /tasks/:id and DELETE /admin/tasks/:id do the same to the
\* users and the tasks: from one state and one task id, each command of the
\* one route leaves what the same command of the other leaves (the same
\* refund, the same removal, the same 404 when no task is stored).
C34_DeleteRoutesAgree == [][C34_Step]_vars

\* The admin route has refunded and removed an active task, and the buyer
\* route, asked for the same task afterwards, answered 404.
C34_Witness ==
  \E i, j \in ReqIds :
    /\ i < j
    /\ reqs[i].op = "adminDelete" /\ Succeeded(reqs[i])
    /\ reqs[i].task.status = "active" /\ reqs[i].amount > 0
    /\ CoinsOf(users, "buyer") = BuyerGrant + reqs[i].amount
    /\ reqs[j].op = "delete" /\ reqs[j].id = reqs[i].id
    /\ reqs[j].pc = "done" /\ reqs[j].status = 404

====
